---- MODULE Spec2Model ----
(***************************************************************************)
(* OpenStop-stats, lib/changesets.py and lib/parser.py: the three-thread   *)
(* pipeline downloader -> chunk_queue -> decompressor -> content_queue ->   *)
(* parser -> output.csv, and the SAX handler that turns changeset elements  *)
(* into CSV rows.                                                           *)
(*                                                                         *)
(* Bytes are small integers.  Plain text (the XML document) is a sequence   *)
(* of markup tokens, each two bytes long: the opening byte LT and a body    *)
(* byte that indexes TokenTable.  A compressed member is the byte BZh, the   *)
(* encoded plain bytes and the byte EOS.  Python values are tagged records:  *)
(* None, Str(text) and IntV(n); a text is a sequence of characters.          *)
(***************************************************************************)
EXTENDS Integers, Sequences, FiniteSets, TLC

(***************************************************************************)
(* Bounds of the model.                                                    *)
(***************************************************************************)
MaxChunk == 3
MaxDepth == 2
MaxEvents == 5
MaxMembers == 3

(***************************************************************************)
(* Python values.                                                          *)
(***************************************************************************)
None == [t |-> "none"]
Str(s) == [t |-> "str", s |-> s]
IntV(n) == [t |-> "int", n |-> n]

\* str.startswith(prefix) on texts: case-sensitive, character by character.
startswith(s, prefix) ==
    /\ Len(prefix) <= Len(s)
    /\ \A i \in 1..Len(prefix) : s[i] = prefix[i]

Digit(n) == <<"0", "1", "2", "3", "4", "5", "6", "7", "8", "9">>[n + 1]

RECURSIVE IntText(_)
IntText(n) == IF n < 10 THEN <<Digit(n)>> ELSE IntText(n \div 10) \o <<Digit(n % 10)>>

\* csv.writer's conversion of one field: None is written as the empty
\* string, a str as itself, a number as str(number).
CsvField(v) ==
    CASE v.t = "none" -> <<>>
      [] v.t = "str" -> v.s
      [] v.t = "int" -> IntText(v.n)

CsvRow(row) == [i \in 1..Len(row) |-> CsvField(row[i])]

(***************************************************************************)
(* class Changeset.                                                        *)
(***************************************************************************)
Changeset ==
    [id |-> IntV(0), created_at |-> Str(<<>>), closed_at |-> Str(<<>>),
     num_changes |-> IntV(0), uid |-> IntV(0),
     min_lat |-> IntV(0), max_lat |-> IntV(0), min_lon |-> IntV(0), max_lon |-> IntV(0),
     comment |-> Str(<<>>), created_by |-> Str(<<>>), locale |-> Str(<<>>)]

headerRow ==
    <<Str(<<"id">>), Str(<<"created_at">>), Str(<<"closed_at">>),
      Str(<<"num_changes">>), Str(<<"uid">>),
      Str(<<"min_lat">>), Str(<<"max_lat">>), Str(<<"min_lon">>), Str(<<"max_lon">>),
      Str(<<"comment">>), Str(<<"created_by">>), Str(<<"locale">>)>>

toRow(self) ==
    <<self.id, self.created_at, self.closed_at, self.num_changes, self.uid,
      self.min_lat, self.max_lat, self.min_lon, self.max_lon,
      self.comment, self.created_by, self.locale>>

(***************************************************************************)
(* class ChangesetHandler.  attrs is a function from attribute names to     *)
(* texts; attrs.get(name) is None for a name the element does not carry.    *)
(***************************************************************************)
get(attrs, name) == IF name \in DOMAIN attrs THEN Str(attrs[name]) ELSE None

\* The truth value Python gives self.current_changeset: None is false, a
\* Changeset instance is true.
Truthy(v) == v # None

\* A startElement that copies only the attributes the element carries.
startChangesetKeepingDefaults(attrs) ==
    [f \in DOMAIN Changeset |-> IF f \in DOMAIN attrs THEN Str(attrs[f]) ELSE Changeset[f]]

startChangeset(attrs) ==
    [Changeset EXCEPT
        !.id = get(attrs, "id"),
        !.created_at = get(attrs, "created_at"),
        !.closed_at = get(attrs, "closed_at"),
        !.num_changes = get(attrs, "num_changes"),
        !.uid = get(attrs, "uid"),
        !.min_lat = get(attrs, "min_lat"),
        !.max_lat = get(attrs, "max_lat"),
        !.min_lon = get(attrs, "min_lon"),
        !.max_lon = get(attrs, "max_lon")]

\* A startElement that files the value of a tag with an unknown key as the comment.
startTagAnyKey(cc, attrs) ==
    LET k == get(attrs, "k") IN
    IF k = Str(<<"created_by">>) THEN [cc EXCEPT !.created_by = get(attrs, "v")]
    ELSE IF k = Str(<<"locale">>) THEN [cc EXCEPT !.locale = get(attrs, "v")]
    ELSE [cc EXCEPT !.comment = get(attrs, "v")]

startTag(cc, attrs) ==
    LET k == get(attrs, "k") IN
    IF k = Str(<<"comment">>) THEN [cc EXCEPT !.comment = get(attrs, "v")]
    ELSE IF k = Str(<<"created_by">>) THEN [cc EXCEPT !.created_by = get(attrs, "v")]
    ELSE IF k = Str(<<"locale">>) THEN [cc EXCEPT !.locale = get(attrs, "v")]
    ELSE cc

\* startElement: the new value of self.current_changeset.
startElement(cc, name, attrs) ==
    IF name = "changeset" THEN startChangeset(attrs)
    ELSE IF name = "tag" /\ Truthy(cc) THEN startTag(cc, attrs)
    ELSE cc

\* A callback that writes the row at the top of the file, under the header.
writeOnTop(changeset, editor_filter, rows) ==
    IF changeset = None \/ changeset.created_by.t # "str"
    THEN [rows |-> rows, raised |-> TRUE]
    ELSE IF startswith(changeset.created_by.s, editor_filter)
    THEN [rows |-> <<Head(rows), CsvRow(toRow(changeset))>> \o Tail(rows), raised |-> FALSE]
    ELSE [rows |-> rows, raised |-> FALSE]

\* The callback write(changeset) of parser(): the rows of the csv file after
\* the call, and whether the call raised (created_by is not a str, or the
\* changeset is None: AttributeError).
write(changeset, editor_filter, rows) ==
    IF changeset = None \/ changeset.created_by.t # "str"
    THEN [rows |-> rows, raised |-> TRUE]
    ELSE IF startswith(changeset.created_by.s, editor_filter)
    THEN [rows |-> Append(rows, CsvRow(toRow(changeset))), raised |-> FALSE]
    ELSE [rows |-> rows, raised |-> FALSE]

\* endElement: calls the callback for the name changeset, nothing otherwise.
endElement(cc, name, editor_filter, rows) ==
    IF name = "changeset" THEN write(cc, editor_filter, rows)
    ELSE [rows |-> rows, raised |-> FALSE]

(***************************************************************************)
(* The document alphabet.  A markup token is the byte LT followed by a body *)
(* byte b, 1 <= b <= Len(TokenTable); an "empty" token is an empty-element  *)
(* tag, for which SAX reports startElement and then endElement.             *)
(***************************************************************************)
LT == 0

OpenStopEditor == <<"O", "p", "E">>
Attrs1 ==
    [id |-> <<"1">>, created_at |-> <<"a">>, closed_at |-> <<"b">>,
     num_changes |-> <<"3">>, uid |-> <<"7">>,
     min_lat |-> <<"1">>, max_lat |-> <<"2">>, min_lon |-> <<"3">>, max_lon |-> <<"4">>]
Attrs2 ==
    [id |-> <<"2">>, created_at |-> <<"a">>, closed_at |-> <<"b">>,
     num_changes |-> <<"1">>, uid |-> <<"7">>]

TokenTable ==
    << [kind |-> "start", name |-> "osm", attrs |-> <<>>],
       [kind |-> "end", name |-> "osm", attrs |-> <<>>],
       [kind |-> "empty", name |-> "changeset", attrs |-> Attrs1],
       [kind |-> "start", name |-> "changeset", attrs |-> Attrs2],
       [kind |-> "end", name |-> "changeset", attrs |-> <<>>],
       [kind |-> "empty", name |-> "tag",
        attrs |-> [k |-> <<"created_by">>, v |-> OpenStopEditor]],
       [kind |-> "empty", name |-> "tag", attrs |-> [k |-> <<"created_by">>, v |-> <<"J">>]],
       [kind |-> "empty", name |-> "tag", attrs |-> [k |-> <<"created_by">>, v |-> <<"o", "p">>]],
       [kind |-> "empty", name |-> "tag", attrs |-> [k |-> <<"created_by">>]],
       [kind |-> "empty", name |-> "tag", attrs |-> [k |-> <<"comment">>, v |-> <<"c">>]],
       [kind |-> "empty", name |-> "tag", attrs |-> [k |-> <<"locale">>, v |-> <<"d">>]],
       [kind |-> "empty", name |-> "tag", attrs |-> [k |-> <<"source">>, v |-> <<"s">>]],
       [kind |-> "start", name |-> "changeset", attrs |-> Attrs1],
       [kind |-> "empty", name |-> "tag", attrs |-> [k |-> <<"created_by">>, v |-> <<"O">>]] >>

TokOsm == 1
TokEndOsm == 2
TokChangeset1 == 3
TokChangeset2 == 4
TokEndChangeset == 5
TokCreatedBy == 6

(***************************************************************************)
(* The incremental XML parser (xml.sax's expat reader) as parser() uses it. *)
(* xp.fed: feed was called, so the expat parser exists; xp.pending: an LT   *)
(* was read and its token is not complete; xp.stack: the open elements,     *)
(* innermost last; xp.rootDone: the document element was closed.            *)
(* A context ctx holds xp, the handler's current_changeset (cc), the rows   *)
(* of the csv file, the ids of the changeset elements closed so far         *)
(* (closed: a history of the input, not program state) and raised.          *)
(***************************************************************************)
NewParser == [fed |-> FALSE, pending |-> FALSE, stack |-> <<>>, rootDone |-> FALSE]

Raise(ctx) == [ctx EXCEPT !.raised = TRUE]

\* A handler that emits the record as soon as it is allocated.
SaxStartEmitting(ctx, tok) ==
    IF ctx.xp.rootDone THEN Raise(ctx)
    ELSE LET cc == startElement(ctx.cc, tok.name, tok.attrs)
             r == endElement(cc, tok.name, ctx.editor_filter, ctx.rows)
         IN  [ctx EXCEPT
                !.xp.stack = Append(@, [name |-> tok.name, id |-> get(tok.attrs, "id")]),
                !.cc = cc,
                !.rows = r.rows]

SaxStart(ctx, tok) ==
    IF ctx.xp.rootDone THEN Raise(ctx)
    ELSE [ctx EXCEPT
            !.xp.stack = Append(@, [name |-> tok.name, id |-> get(tok.attrs, "id")]),
            !.cc = startElement(ctx.cc, tok.name, tok.attrs)]

SaxEnd(ctx, name) ==
    LET st == ctx.xp.stack IN
    IF st = <<>> \/ st[Len(st)].name # name THEN Raise(ctx)
    ELSE LET r == endElement(ctx.cc, name, ctx.editor_filter, ctx.rows) IN
         [ctx EXCEPT
            !.xp.stack = SubSeq(st, 1, Len(st) - 1),
            !.xp.rootDone = (Len(st) = 1),
            !.closed = IF name = "changeset" THEN Append(@, st[Len(st)].id) ELSE @,
            !.rows = r.rows,
            !.raised = r.raised]

SaxToken(ctx, tok) ==
    CASE tok.kind = "start" -> SaxStart(ctx, tok)
      [] tok.kind = "end" -> SaxEnd(ctx, tok.name)
      [] tok.kind = "empty" ->
            LET c == SaxStart(ctx, tok) IN
            IF c.raised THEN c ELSE SaxEnd(c, tok.name)

FeedByte(ctx, b) ==
    IF ~ctx.xp.pending
    THEN IF b = LT THEN [ctx EXCEPT !.xp.pending = TRUE] ELSE Raise(ctx)
    ELSE IF b \in 1..Len(TokenTable)
         THEN SaxToken([ctx EXCEPT !.xp.pending = FALSE], TokenTable[b])
         ELSE Raise(ctx)

RECURSIVE FeedBytes(_, _)
FeedBytes(ctx, content) ==
    IF content = <<>> \/ ctx.raised THEN ctx
    ELSE FeedBytes(FeedByte(ctx, Head(content)), Tail(content))

\* A feed that forgets the token cut by the end of the previous feed.
feedLosingCutToken(ctx, content) ==
    IF ctx.xp.pending /\ content # <<>>
    THEN FeedBytes([ctx EXCEPT !.xp.fed = TRUE, !.xp.pending = FALSE], Tail(content))
    ELSE FeedBytes([ctx EXCEPT !.xp.fed = TRUE], content)

\* parser.feed(content): everything complete in content is parsed and
\* reported to the handler at once; the rest waits for the next feed.
feed(ctx, content) == FeedBytes([ctx EXCEPT !.xp.fed = TRUE], content)

\* parser.close(): whether it raises.  Without a feed there is no expat
\* parser and close returns; otherwise the document must be complete.
closeRaises(xp) == xp.fed /\ (xp.pending \/ xp.stack # <<>> \/ ~xp.rootDone)

(***************************************************************************)
(* bz2.  A member is BZh, the encoded bytes, EOS.  BZ2Decompressor keeps    *)
(* its position in the member (st), eof and unused_data.                    *)
(***************************************************************************)
BZh == 1
EOS == 2
Junk == 3
EncBase == 10
Enc(b) == b + EncBase
Dec(z) == z - EncBase

Member(plain) == <<BZh>> \o [i \in 1..Len(plain) |-> Enc(plain[i])] \o <<EOS>>

RECURSIVE Flatten(_)
Flatten(ss) == IF ss = <<>> THEN <<>> ELSE Head(ss) \o Flatten(Tail(ss))

Compress(members) == Flatten([i \in 1..Len(members) |-> Member(members[i])])

BZ2Decompressor == [st |-> "hdr", eof |-> FALSE, unused_data |-> <<>>]

\* decompressor.decompress(data): [d: the decompressor afterwards, out: the
\* bytes returned, raised: an exception was raised].
RECURSIVE decompress(_, _, _)
decompress(d, data, out) ==
    IF d.eof THEN [d |-> d, out |-> out, raised |-> TRUE]
    ELSE IF data = <<>> THEN [d |-> d, out |-> out, raised |-> FALSE]
    ELSE LET z == Head(data) IN
         IF d.st = "hdr"
         THEN IF z = BZh THEN decompress([d EXCEPT !.st = "body"], Tail(data), out)
              ELSE [d |-> d, out |-> out, raised |-> TRUE]
         ELSE IF z = EOS
              THEN [d |-> [d EXCEPT !.eof = TRUE, !.unused_data = Tail(data)],
                    out |-> out, raised |-> FALSE]
              ELSE IF z >= EncBase THEN decompress(d, Tail(data), Append(out, Dec(z)))
              ELSE [d |-> d, out |-> out, raised |-> TRUE]

\* Lines 107-110 with an if in place of the while: one restart per chunk.
drainOnce(d, content) ==
    IF ~d.eof THEN [d |-> d, content |-> content, raised |-> FALSE]
    ELSE LET r == decompress(BZ2Decompressor, d.unused_data, <<>>) IN
         [d |-> r.d, content |-> content \o r.out, raised |-> r.raised]

\* Lines 107-110 restarting only if bytes remain after the end of the member.
RECURSIVE drainWhileBytesRemain(_, _)
drainWhileBytesRemain(d, content) ==
    IF ~d.eof \/ d.unused_data = <<>> THEN [d |-> d, content |-> content, raised |-> FALSE]
    ELSE LET r == decompress(BZ2Decompressor, d.unused_data, <<>>) IN
         IF r.raised THEN [d |-> r.d, content |-> content \o r.out, raised |-> TRUE]
         ELSE drainWhileBytesRemain(r.d, content \o r.out)

\* Lines 107-110: while decompressor.eof, a new decompressor takes the
\* unused data and its output is appended to content.
RECURSIVE drain(_, _)
drain(d, content) ==
    IF ~d.eof THEN [d |-> d, content |-> content, raised |-> FALSE]
    ELSE LET r == decompress(BZ2Decompressor, d.unused_data, <<>>) IN
         IF r.raised THEN [d |-> r.d, content |-> content \o r.out, raised |-> TRUE]
         ELSE drain(r.d, content \o r.out)

\* Lines 105-110 for one chunk.
decompressChunk(d, chunk) ==
    LET r == decompress(d, chunk, <<>>) IN
    IF r.raised THEN [d |-> r.d, content |-> r.out, raised |-> TRUE]
    ELSE drain(r.d, r.out)

(***************************************************************************)
(* queue.Queue (Python 3.13).  is_shutdown is the queue's own flag;         *)
(* aborted records that shutdown(immediate=True) was called on it.          *)
(***************************************************************************)
Queue == [items |-> <<>>, is_shutdown |-> FALSE, aborted |-> FALSE]

\* A graceful shutdown that throws away what is still queued.
shutdownDropping(q) == [q EXCEPT !.is_shutdown = TRUE, !.items = <<>>]

\* q.shutdown(): puts raise ShutDown from now on, gets once the queue is empty.
shutdown(q) == [q EXCEPT !.is_shutdown = TRUE]

\* q.shutdown(immediate=True): the queue is drained as well.
shutdownImmediate(q) == [q EXCEPT !.is_shutdown = TRUE, !.items = <<>>, !.aborted = TRUE]

\* A put on a queue without maxsize: it returns unless the queue is shut down.
CanPutUnbounded(q, maxsize) == ~q.is_shutdown

\* q.put(item) returns (it neither blocks nor raises).
CanPut(q, maxsize) == ~q.is_shutdown /\ Len(q.items) < maxsize
\* A put at the head of the queue: the queue is a stack.
putFirst(q, item) == [q EXCEPT !.items = <<item>> \o @]
put(q, item) == [q EXCEPT !.items = Append(@, item)]

\* q.get() returns an item.
CanGet(q) == q.items # <<>>
\* q.get() raises ShutDown.
GetShutDown(q) == q.items = <<>> /\ q.is_shutdown

(***************************************************************************)
(* The inputs of a run: the compressed file behind source_url, as the       *)
(* plain text of its members and the place of a corrupt byte (0: none).     *)
(***************************************************************************)
GoodDoc == <<LT, TokOsm, LT, TokChangeset1, LT, TokChangeset2, LT, TokCreatedBy,
             LT, TokEndChangeset, LT, TokEndOsm>>
BadDoc == <<LT, TokOsm, LT, TokChangeset1, LT, TokEndChangeset, LT, TokEndOsm>>

Corrupt(stream, at) ==
    IF at = 0 THEN stream
    ELSE SubSeq(stream, 1, at - 1) \o <<Junk>> \o SubSeq(stream, at, Len(stream))

Inputs ==
    { [members |-> <<SubSeq(GoodDoc, 1, 5), <<>>, SubSeq(GoodDoc, 6, 12)>>, corrupt |-> 0],
      [members |-> <<BadDoc>>, corrupt |-> 0],
      [members |-> <<SubSeq(GoodDoc, 1, 4), SubSeq(GoodDoc, 5, 8)>>, corrupt |-> 7] }

File(inp) == Corrupt(Compress(inp.members), inp.corrupt)

Filters == {<<>>, <<"O", "p">>}

Min(a, b) == IF a < b THEN a ELSE b

VARIABLES
    source,             \* the input of the run (never changes)
    editor_filter,      \* -e
    queue_size,         \* maxsize of both queues
    response,           \* the bytes of the HTTP body not yet read
    chunk_queue,
    content_queue,
    main,               \* the main thread's place
    download_thread,    \* [pc, result]
    decompress_thread,  \* [pc, result, decompressor, chunk, content]
    parse_thread,       \* [pc, result]
    xmlparser,          \* the expat parser of parser()
    current_changeset,  \* ChangesetHandler.current_changeset
    csvfile,            \* the rows written to output.csv
    stdout,             \* the messages printed
    pushed,             \* history: the contents put on content_queue, concatenated
    delivered,          \* history: [got, fed], the bytes got from chunk_queue and fed to the parser
    closed              \* history: the ids of the changeset elements closed

vars == <<source, editor_filter, queue_size, response, chunk_queue, content_queue,
          main, download_thread, decompress_thread, parse_thread, xmlparser,
          current_changeset, csvfile, stdout, pushed, delivered, closed>>

config == <<source, editor_filter, queue_size>>
parserVars == <<xmlparser, current_changeset, csvfile, closed>>

Thread == [pc |-> "idle", result |-> ""]
DecompressThread ==
    [pc |-> "idle", result |-> "", decompressor |-> BZ2Decompressor,
     chunk |-> <<>>, content |-> <<>>]

InitRun(inp, f, depth) ==
    /\ source = inp
    /\ editor_filter = f
    /\ queue_size = depth
    /\ response = File(inp)
    /\ chunk_queue = Queue
    /\ content_queue = Queue
    /\ main = "start_download"
    /\ download_thread = Thread
    /\ decompress_thread = DecompressThread
    /\ parse_thread = Thread
    /\ xmlparser = NewParser
    /\ current_changeset = None
    /\ csvfile = <<>>
    /\ stdout = {}
    /\ pushed = <<>>
    /\ delivered = [got |-> 0, fed |-> 0]
    /\ closed = <<>>

Init == \E inp \in Inputs, f \in Filters, depth \in 1..MaxDepth : InitRun(inp, f, depth)

(***************************************************************************)
(* __main__: starts the three threads, joins them, prints Done.            *)
(***************************************************************************)
MainStartDownload ==
    /\ main = "start_download"
    /\ main' = "start_decompress"
    /\ download_thread' = [download_thread EXCEPT !.pc = "run"]
    /\ UNCHANGED <<config, response, chunk_queue, content_queue, decompress_thread,
                   parse_thread, parserVars, stdout, pushed, delivered>>

MainStartDecompress ==
    /\ main = "start_decompress"
    /\ main' = "start_parse"
    /\ decompress_thread' = [decompress_thread EXCEPT !.pc = "get"]
    /\ UNCHANGED <<config, response, chunk_queue, content_queue, download_thread,
                   parse_thread, parserVars, stdout, pushed, delivered>>

MainStartParse ==
    /\ main = "start_parse"
    /\ main' = "join"
    /\ parse_thread' = [parse_thread EXCEPT !.pc = "open"]
    /\ UNCHANGED <<config, response, chunk_queue, content_queue, download_thread,
                   decompress_thread, parserVars, stdout, pushed, delivered>>

\* __main__ without line 191: the parse thread is not joined.
MainJoinTwo ==
    /\ main = "join"
    /\ download_thread.pc = "done"
    /\ decompress_thread.pc = "done"
    /\ main' = "done"
    /\ stdout' = stdout \cup {"Done"}
    /\ UNCHANGED <<config, response, chunk_queue, content_queue, download_thread,
                   decompress_thread, parse_thread, parserVars, pushed, delivered>>

\* The three joins return once every thread has ended, however it ended.
MainJoin ==
    /\ main = "join"
    /\ download_thread.pc = "done"
    /\ decompress_thread.pc = "done"
    /\ parse_thread.pc = "done"
    /\ main' = "done"
    /\ stdout' = stdout \cup {"Done"}
    /\ UNCHANGED <<config, response, chunk_queue, content_queue, download_thread,
                   decompress_thread, parse_thread, parserVars, pushed, delivered>>

(***************************************************************************)
(* downloader(url, q).                                                     *)
(***************************************************************************)
\* One turn of the for loop: iter_content yields the next chunk, q.put.
DownloaderPut ==
    /\ download_thread.pc = "run"
    /\ response # <<>>
    /\ CanPut(chunk_queue, queue_size)
    /\ \E n \in 1..Min(MaxChunk, Len(response)) :
         /\ chunk_queue' = put(chunk_queue, SubSeq(response, 1, n))
         /\ response' = SubSeq(response, n + 1, Len(response))
    /\ UNCHANGED <<config, content_queue, main, download_thread, decompress_thread,
                   parse_thread, parserVars, stdout, pushed, delivered>>

\* q.put raises ShutDown: return, and the finally clause shuts q down.
DownloaderShutDown ==
    /\ download_thread.pc = "run"
    /\ response # <<>>
    /\ chunk_queue.is_shutdown
    /\ chunk_queue' = shutdown(chunk_queue)
    /\ download_thread' = [pc |-> "done", result |-> "shutdown"]
    /\ UNCHANGED <<config, response, content_queue, main, decompress_thread,
                   parse_thread, parserVars, stdout, pushed, delivered>>

\* The body is read to its end: the finally clause shuts q down.
DownloaderEnd ==
    /\ download_thread.pc = "run"
    /\ response = <<>>
    /\ chunk_queue' = shutdown(chunk_queue)
    /\ download_thread' = [pc |-> "done", result |-> "returned"]
    /\ UNCHANGED <<config, response, content_queue, main, decompress_thread,
                   parse_thread, parserVars, stdout, pushed, delivered>>

\* requests raises (no connection, a bad status, the body breaks off): the
\* error is printed and the finally clause shuts q down.
DownloaderError ==
    /\ download_thread.pc = "run"
    /\ stdout' = stdout \cup {"Download error"}
    /\ chunk_queue' = shutdown(chunk_queue)
    /\ download_thread' = [pc |-> "done", result |-> "error"]
    /\ UNCHANGED <<config, response, content_queue, main, decompress_thread,
                   parse_thread, parserVars, pushed, delivered>>

(***************************************************************************)
(* decompressor(q_in, q_out).                                              *)
(***************************************************************************)
\* q_in.get() returns a chunk; lines 105-110 decompress it.
DecompressorGet ==
    /\ decompress_thread.pc = "get"
    /\ CanGet(chunk_queue)
    /\ chunk_queue' = [chunk_queue EXCEPT !.items = Tail(@)]
    /\ LET r == decompressChunk(decompress_thread.decompressor, Head(chunk_queue.items)) IN
         IF r.raised
         THEN /\ decompress_thread' = [decompress_thread EXCEPT !.pc = "abort_in"]
              /\ stdout' = stdout \cup {"Decompression error"}
         ELSE /\ decompress_thread' = [decompress_thread EXCEPT
                    !.pc = "put", !.decompressor = r.d,
                    !.chunk = Head(chunk_queue.items), !.content = r.content]
              /\ stdout' = stdout
    /\ delivered' = [delivered EXCEPT !.got = @ + Len(Head(chunk_queue.items))]
    /\ UNCHANGED <<config, response, content_queue, main, download_thread,
                   parse_thread, parserVars, pushed>>

\* A decompressor that puts nothing when the chunk gave no content.
DecompressorPutSkippingEmpty ==
    /\ decompress_thread.pc = "put"
    /\ CanPut(content_queue, queue_size)
    /\ content_queue' = IF decompress_thread.content = <<>> THEN content_queue
                        ELSE put(content_queue, decompress_thread.content)
    /\ pushed' = pushed \o decompress_thread.content
    /\ decompress_thread' = [decompress_thread EXCEPT
            !.pc = "get", !.chunk = <<>>, !.content = <<>>]
    /\ UNCHANGED <<config, response, chunk_queue, main, download_thread,
                   parse_thread, parserVars, stdout, delivered>>

\* q_out.put(content) returns; q_in.task_done().
DecompressorPut ==
    /\ decompress_thread.pc = "put"
    /\ CanPut(content_queue, queue_size)
    /\ content_queue' = put(content_queue, decompress_thread.content)
    /\ pushed' = pushed \o decompress_thread.content
    /\ decompress_thread' = [decompress_thread EXCEPT
            !.pc = "get", !.chunk = <<>>, !.content = <<>>]
    /\ UNCHANGED <<config, response, chunk_queue, main, download_thread,
                   parse_thread, parserVars, stdout, delivered>>

\* q_in.get() or q_out.put() raises ShutDown.
DecompressorShutDown ==
    /\ \/ decompress_thread.pc = "get" /\ GetShutDown(chunk_queue)
       \/ decompress_thread.pc = "put" /\ content_queue.is_shutdown
    /\ decompress_thread' = [decompress_thread EXCEPT
            !.pc = "shutdown_in", !.chunk = <<>>, !.content = <<>>]
    /\ UNCHANGED <<config, response, chunk_queue, content_queue, main, download_thread,
                   parse_thread, parserVars, stdout, pushed, delivered>>

\* Line 115.
DecompressorShutdownIn ==
    /\ decompress_thread.pc = "shutdown_in"
    /\ chunk_queue' = shutdown(chunk_queue)
    /\ decompress_thread' = [decompress_thread EXCEPT !.pc = "shutdown_out"]
    /\ UNCHANGED <<config, response, content_queue, main, download_thread,
                   parse_thread, parserVars, stdout, pushed, delivered>>

\* Lines 116-117.
DecompressorShutdownOut ==
    /\ decompress_thread.pc = "shutdown_out"
    /\ content_queue' = shutdown(content_queue)
    /\ decompress_thread' = [decompress_thread EXCEPT !.pc = "done", !.result = "shutdown"]
    /\ UNCHANGED <<config, response, chunk_queue, main, download_thread,
                   parse_thread, parserVars, stdout, pushed, delivered>>

\* The except clause without line 120: q_in is left open.
DecompressorAbortInSkipped ==
    /\ decompress_thread.pc = "abort_in"
    /\ decompress_thread' = [decompress_thread EXCEPT !.pc = "abort_out"]
    /\ UNCHANGED <<config, response, chunk_queue, content_queue, main, download_thread,
                   parse_thread, parserVars, stdout, pushed, delivered>>

\* Line 120.
DecompressorAbortIn ==
    /\ decompress_thread.pc = "abort_in"
    /\ chunk_queue' = shutdownImmediate(chunk_queue)
    /\ decompress_thread' = [decompress_thread EXCEPT !.pc = "abort_out"]
    /\ UNCHANGED <<config, response, content_queue, main, download_thread,
                   parse_thread, parserVars, stdout, pushed, delivered>>

\* Lines 121-122.
DecompressorAbortOut ==
    /\ decompress_thread.pc = "abort_out"
    /\ content_queue' = shutdownImmediate(content_queue)
    /\ decompress_thread' = [decompress_thread EXCEPT !.pc = "done", !.result = "error"]
    /\ UNCHANGED <<config, response, chunk_queue, main, download_thread,
                   parse_thread, parserVars, stdout, pushed, delivered>>

(***************************************************************************)
(* parser(q, editor_filter).                                               *)
(***************************************************************************)
Context ==
    [xp |-> xmlparser, cc |-> current_changeset, rows |-> csvfile, closed |-> closed,
     raised |-> FALSE, editor_filter |-> editor_filter]

\* parser() without line 130: the file is opened, no header row is written.
ParserOpenNoHeader ==
    /\ parse_thread.pc = "open"
    /\ csvfile' = <<>>
    /\ parse_thread' = [parse_thread EXCEPT !.pc = "get"]
    /\ UNCHANGED <<config, response, chunk_queue, content_queue, main, download_thread,
                   decompress_thread, xmlparser, current_changeset, closed, stdout,
                   pushed, delivered>>

\* Lines 127-136: the file is opened and the header row written.
ParserOpen ==
    /\ parse_thread.pc = "open"
    /\ csvfile' = <<CsvRow(headerRow)>>
    /\ parse_thread' = [parse_thread EXCEPT !.pc = "get"]
    /\ UNCHANGED <<config, response, chunk_queue, content_queue, main, download_thread,
                   decompress_thread, xmlparser, current_changeset, closed, stdout,
                   pushed, delivered>>

\* q.get() returns a content; parser.feed(content); q.task_done(), or the
\* except clause prints the error.
ParserGet ==
    /\ parse_thread.pc = "get"
    /\ CanGet(content_queue)
    /\ content_queue' = [content_queue EXCEPT !.items = Tail(@)]
    /\ LET c == feed(Context, Head(content_queue.items)) IN
         /\ xmlparser' = c.xp
         /\ current_changeset' = c.cc
         /\ csvfile' = c.rows
         /\ closed' = c.closed
         /\ IF c.raised
            THEN /\ parse_thread' = [parse_thread EXCEPT !.pc = "abort"]
                 /\ stdout' = stdout \cup {"Parsing error"}
            ELSE /\ parse_thread' = parse_thread
                 /\ stdout' = stdout
    /\ delivered' = [delivered EXCEPT !.fed = @ + Len(Head(content_queue.items))]
    /\ UNCHANGED <<config, response, chunk_queue, main, download_thread,
                   decompress_thread, pushed>>

\* The except clause of parser() without line 148: content_queue is left open.
ParserAbortSilent ==
    /\ parse_thread.pc = "abort"
    /\ parse_thread' = [pc |-> "done", result |-> "error"]
    /\ UNCHANGED <<config, response, chunk_queue, content_queue, main, download_thread,
                   decompress_thread, parserVars, stdout, pushed, delivered>>

\* An except clause that also writes out the record the handler holds.
ParserAbortFlushing ==
    /\ parse_thread.pc = "abort"
    /\ content_queue' = shutdownImmediate(content_queue)
    /\ parse_thread' = [pc |-> "done", result |-> "error"]
    /\ csvfile' = IF current_changeset = None THEN csvfile
                  ELSE Append(csvfile, CsvRow(toRow(current_changeset)))
    /\ UNCHANGED <<config, response, chunk_queue, main, download_thread,
                   decompress_thread, xmlparser, current_changeset, closed, stdout,
                   pushed, delivered>>

\* The except clause with a plain q.shutdown().
ParserAbortGraceful ==
    /\ parse_thread.pc = "abort"
    /\ content_queue' = shutdown(content_queue)
    /\ parse_thread' = [pc |-> "done", result |-> "error"]
    /\ UNCHANGED <<config, response, chunk_queue, main, download_thread,
                   decompress_thread, parserVars, stdout, pushed, delivered>>

\* Lines 148-149.
ParserAbort ==
    /\ parse_thread.pc = "abort"
    /\ content_queue' = shutdownImmediate(content_queue)
    /\ parse_thread' = [pc |-> "done", result |-> "error"]
    /\ UNCHANGED <<config, response, chunk_queue, main, download_thread,
                   decompress_thread, parserVars, stdout, pushed, delivered>>

\* A parser that empties the file again when parser.close() raises.
ParserCloseRollingBack ==
    /\ parse_thread.pc = "get"
    /\ GetShutDown(content_queue)
    /\ parse_thread' = [pc |-> "done",
                        result |-> IF closeRaises(xmlparser) THEN "crashed" ELSE "returned"]
    /\ csvfile' = IF closeRaises(xmlparser) THEN SubSeq(csvfile, 1, 1) ELSE csvfile
    /\ UNCHANGED <<config, response, chunk_queue, content_queue, main, download_thread,
                   decompress_thread, xmlparser, current_changeset, closed, stdout,
                   pushed, delivered>>

\* q.get() raises ShutDown: break, then parser.close() outside the try
\* statement; what it raises ends the thread with a traceback.
ParserClose ==
    /\ parse_thread.pc = "get"
    /\ GetShutDown(content_queue)
    /\ parse_thread' = [pc |-> "done",
                        result |-> IF closeRaises(xmlparser) THEN "crashed" ELSE "returned"]
    /\ UNCHANGED <<config, response, chunk_queue, content_queue, main, download_thread,
                   decompress_thread, parserVars, stdout, pushed, delivered>>

Next ==
    \/ MainStartDownload \/ MainStartDecompress \/ MainStartParse \/ MainJoin
    \/ DownloaderPut \/ DownloaderShutDown \/ DownloaderEnd \/ DownloaderError
    \/ DecompressorGet \/ DecompressorPut \/ DecompressorShutDown
    \/ DecompressorShutdownIn \/ DecompressorShutdownOut
    \/ DecompressorAbortIn \/ DecompressorAbortOut
    \/ ParserOpen \/ ParserGet \/ ParserAbort \/ ParserClose

Spec == Init /\ [][Next]_vars

(***************************************************************************)
(* The decompressor's loop alone (lines 104-112): it is handed a file of    *)
(* valid members chunk by chunk, cut anywhere, and what it would put on     *)
(* q_out is collected in pushed.                                            *)
(***************************************************************************)
Plains == {<<>>, <<LT>>, <<LT, TokOsm>>}

RECURSIVE MemberLists(_)
MemberLists(n) ==
    IF n = 0 THEN {<<>>}
    ELSE LET shorter == MemberLists(n - 1) IN
         shorter \cup {Append(ms, m) : ms \in {x \in shorter : Len(x) = n - 1}, m \in Plains}

ValidInputs == {[members |-> ms, corrupt |-> 0] : ms \in MemberLists(MaxMembers) \ {<<>>}}

DecompressorInit ==
    /\ \E inp \in ValidInputs : InitRun(inp, <<>>, 1)

DecompressorTurn ==
    /\ decompress_thread.pc = "idle"
    /\ decompress_thread.result = ""
    /\ response # <<>>
    /\ \E n \in 1..Len(response) :
         LET chunk == SubSeq(response, 1, n)
             r == decompressChunk(decompress_thread.decompressor, chunk)
         IN  /\ response' = SubSeq(response, n + 1, Len(response))
             /\ delivered' = [delivered EXCEPT !.got = @ + n]
             /\ IF r.raised
                THEN /\ decompress_thread' = [decompress_thread EXCEPT
                            !.result = "error", !.chunk = chunk]
                     /\ pushed' = pushed
                ELSE /\ decompress_thread' = [decompress_thread EXCEPT
                            !.decompressor = r.d, !.chunk = chunk, !.content = r.content]
                     /\ pushed' = pushed \o r.content
    /\ UNCHANGED <<config, chunk_queue, content_queue, main, download_thread,
                   parse_thread, parserVars, stdout>>

DecompressorSpec == DecompressorInit /\ [][DecompressorTurn]_vars

(***************************************************************************)
(* lib/parser.py: the header row, then xml.sax.parse(sys.stdin, handler)    *)
(* with the same Changeset and ChangesetHandler.  stdin is any sequence of   *)
(* tokens; an exception ends the script.                                    *)
(***************************************************************************)
ScriptInit ==
    /\ \E f \in Filters : InitRun([members |-> <<>>, corrupt |-> 0], f, 1)

\* Line 83.
ScriptHeader ==
    /\ main = "start_download"
    /\ main' = "parse"
    /\ csvfile' = <<CsvRow(headerRow)>>
    /\ UNCHANGED <<config, response, chunk_queue, content_queue, download_thread,
                   decompress_thread, parse_thread, xmlparser, current_changeset, closed,
                   stdout, pushed, delivered>>

\* Line 88: the next token of stdin is parsed.
ScriptToken ==
    /\ main = "parse"
    /\ delivered.fed < 2 * MaxEvents
    /\ \E b \in 1..Len(TokenTable) :
         LET c == feed(Context, <<LT, b>>) IN
         /\ xmlparser' = c.xp
         /\ current_changeset' = c.cc
         /\ csvfile' = c.rows
         /\ closed' = c.closed
         /\ main' = IF c.raised THEN "crashed" ELSE "parse"
    /\ delivered' = [delivered EXCEPT !.fed = @ + 2]
    /\ UNCHANGED <<config, response, chunk_queue, content_queue, download_thread,
                   decompress_thread, parse_thread, stdout, pushed>>

\* Line 88: stdin is at its end.
ScriptEnd ==
    /\ main = "parse"
    /\ main' = IF closeRaises([xmlparser EXCEPT !.fed = TRUE]) THEN "crashed" ELSE "exit"
    /\ UNCHANGED <<config, response, chunk_queue, content_queue, download_thread,
                   decompress_thread, parse_thread, parserVars, stdout, pushed, delivered>>

ScriptNext == ScriptHeader \/ ScriptToken \/ ScriptEnd

ScriptSpec == ScriptInit /\ [][ScriptNext]_vars

(***************************************************************************)
(* The claims.                                                             *)
(***************************************************************************)
Errors == {"Download error", "Decompression error", "Parsing error"}

\* No stage has failed: nothing was reported and no thread died of an exception.
FailureFree == stdout \cap Errors = {} /\ parse_thread.result # "crashed"

NewContext(f) ==
    [xp |-> NewParser, cc |-> None, rows |-> <<CsvRow(headerRow)>>, closed |-> <<>>,
     raised |-> FALSE, editor_filter |-> f]

\* The csv file of a run that gets the whole file as one chunk and feeds the
\* whole content at once.
OneShotFile(inp, f) ==
    feed(NewContext(f), decompressChunk(BZ2Decompressor, File(inp)).content).rows

\* C2: a failure-free run, wherever the downloader cut the input into chunks,
\* ends with the csv file that the uncut input gives: the same rows in the
\* same order.
C2_ChunkingInvariance ==
    (parse_thread.pc = "done" /\ FailureFree) => csvfile = OneShotFile(source, editor_filter)

\* A failure-free run has ended with both changesets written, after chunks
\* that cut the file inside a token and around the members' boundaries.
C2_Witness ==
    /\ main = "done" /\ FailureFree
    /\ editor_filter = <<>>
    /\ Len(csvfile) = 3
    /\ Len(File(source)) > 2 * MaxChunk

\* The rows that feeding the first n bytes of content at once writes.
RowsOfPrefix(content, n, f) == feed(NewContext(f), SubSeq(content, 1, n)).rows

\* C3: whatever the queue size and the interleaving, the csv file is at every
\* moment the one that the bytes fed so far give, and a failure-free run ends
\* with the rows of the whole document, for every queue size alike.
C3_DepthAndScheduleInvariance ==
    /\ parse_thread.pc \notin {"idle", "open"} =>
            csvfile = RowsOfPrefix(pushed, delivered.fed, editor_filter)
    /\ (main = "done" /\ FailureFree) =>
            /\ delivered.fed = Len(Flatten(source.members))
            /\ csvfile = RowsOfPrefix(Flatten(source.members), delivered.fed, editor_filter)

\* A failure-free run with the larger queue size has ended; both queues were
\* used and two rows were written.
C3_Witness ==
    /\ main = "done" /\ FailureFree
    /\ queue_size = MaxDepth
    /\ editor_filter = <<>>
    /\ Len(csvfile) = 3

IsData(z) == z >= EncBase

\* The plain bytes that the data bytes of a compressed text stand for.
PlainOf(compressed) ==
    LET data == SelectSeq(compressed, IsData) IN [i \in 1..Len(data) |-> Dec(data[i])]

\* C1: for a file of valid members cut into chunks anywhere, the decompressor
\* raises nothing, what it has pushed is at every moment the plain text of
\* all the bytes it was given, whichever members they belong to, and at the
\* end of the file it is the members' contents concatenated in order.
C1_MultiMemberDecompression ==
    /\ decompress_thread.result # "error"
    /\ pushed = PlainOf(SubSeq(File(source), 1, delivered.got))
    /\ response = <<>> => pushed = Flatten(source.members)

CountEOS(chunk) == Len(SelectSeq(chunk, LAMBDA z : z = EOS))

\* The last chunk of a file of MaxMembers members held two ends of members,
\* one of them as its last byte, and content of a later member was pushed.
C1_Witness ==
    /\ response = <<>>
    /\ Len(source.members) = MaxMembers
    /\ CountEOS(decompress_thread.chunk) >= 2
    /\ decompress_thread.chunk[Len(decompress_thread.chunk)] = EOS
    /\ Len(pushed) > Len(source.members[1])
    /\ pushed = Flatten(source.members)

RowIds == [i \in 1..(Len(csvfile) - 1) |-> csvfile[i + 1][1]]
ClosedIds == [i \in 1..Len(closed) |-> CsvField(closed[i])]

\* C4 as stated: with an empty filter the data rows are the records of the
\* changeset elements closed so far, one row each, in closing order.
C4_EveryRecordOnce ==
    (main \in {"parse", "crashed", "exit"} /\ editor_filter = <<>>) => RowIds = ClosedIds

\* C5 as stated: when a changeset element ends, its record is written if and
\* only if the filter is a prefix of created_by, and always when the filter
\* is empty.
C5_WrittenIffPrefix ==
    [][Len(closed') = Len(closed) + 1 =>
        LET cb == current_changeset'.created_by
            written == Len(csvfile') = Len(csvfile) + 1
        IN  written <=> \/ editor_filter = <<>>
                        \/ cb.t = "str" /\ startswith(cb.s, editor_filter)]_vars

BoundingBox == {"min_lat", "max_lat", "min_lon", "max_lon"}
Column(name) == CHOOSE i \in 1..Len(headerRow) : headerRow[i] = Str(<<name>>)

\* C6: the header and every data row have twelve columns; the row of a
\* record made from a changeset element without bounding-box attributes has
\* the empty string in the four bounding-box columns and the element's own
\* values in the five columns before them, and the row of an element with
\* them has their values there.
C6_MissingBoundingBoxIsEmpty ==
    \A i \in 1..Len(csvfile) :
        LET row == csvfile[i] IN
        /\ Len(row) = 12
        /\ (i > 1 /\ row[Column("id")] = Attrs2.id) =>
                /\ \A f \in DOMAIN Attrs2 : row[Column(f)] = Attrs2[f]
                /\ \A f \in BoundingBox : row[Column(f)] = <<>>
        /\ (i > 1 /\ row[Column("id")] = Attrs1.id) =>
                \A f \in DOMAIN Attrs1 : row[Column(f)] = Attrs1[f]
        /\ i > 1 =>
                /\ row[Column("comment")] \in {<<>>, <<"c">>}
                /\ row[Column("locale")] \in {<<>>, <<"d">>}

\* A row was written for the changeset element without bounding-box
\* attributes, after one for an element with them.
C6_Witness ==
    /\ Len(csvfile) = 3
    /\ csvfile[2][Column("id")] = Attrs1.id
    /\ csvfile[3][Column("id")] = Attrs2.id
    /\ csvfile[3][Column("min_lat")] = <<>>
    /\ csvfile[3][Column("created_by")] = OpenStopEditor

AbortClosed(q) == q.aborted /\ q.is_shutdown /\ q.items = <<>>

AllThreadsDone ==
    download_thread.pc = "done" /\ decompress_thread.pc = "done" /\ parse_thread.pc = "done"

\* C7: a decompressor that hit a decompression error goes on to abort-close
\* chunk_queue and then content_queue without blocking, and once it has
\* ended both queues are abort-closed and neither neighbour can block: a
\* downloader still running cannot put, its next put raises ShutDown and ends
\* it, and a parser at its get gets ShutDown and ends.
C7_DecompressionErrorReleasesBoth ==
    /\ decompress_thread.pc = "abort_in" => ENABLED DecompressorAbortIn
    /\ decompress_thread.pc = "abort_out" =>
            AbortClosed(chunk_queue) /\ ENABLED DecompressorAbortOut
    /\ decompress_thread.result = "error" =>
            /\ decompress_thread.pc = "done"
            /\ AbortClosed(chunk_queue) /\ AbortClosed(content_queue)
            /\ download_thread.pc = "run" =>
                    ~ENABLED DownloaderPut /\ ENABLED (DownloaderShutDown \/ DownloaderEnd)
            /\ parse_thread.pc = "get" => ~ENABLED ParserGet /\ ENABLED ParserClose
            /\ parse_thread.pc = "open" => ENABLED ParserOpen
            /\ parse_thread.pc = "abort" => ENABLED ParserAbort

\* The decompressor failed while the downloader still had bytes to put and
\* the parser was running; the downloader ended on ShutDown, the parser ended.
C7_Witness ==
    /\ decompress_thread.result = "error"
    /\ download_thread.result = "shutdown"
    /\ response # <<>>
    /\ parse_thread.pc = "done"

C9_DoneOnlyAfterCleanRun ==
    "Done" \in stdout =>
        /\ "Decompression error" \notin stdout
        /\ "Parsing error" \notin stdout
        /\ parse_thread.result # "crashed"

\* C10 as stated: after a transport failure the decompressor and the parser
\* end without an unhandled exception.
C10_TransportFailureEndsCleanly ==
    (download_thread.result = "error" /\ AllThreadsDone /\ stdout \cap Errors = {"Download error"}) =>
        /\ decompress_thread.result = "shutdown"
        /\ parse_thread.result = "returned"

\* A step the program takes by itself: every action but the transport failure,
\* which is the environment's.  (ParserGet is left to CanProgress: its feed
\* always returns or raises, so it can be taken exactly when its get returns.)
Progress ==
    \/ MainStartDownload \/ MainStartDecompress \/ MainStartParse \/ MainJoin
    \/ DownloaderPut \/ DownloaderShutDown \/ DownloaderEnd
    \/ DecompressorGet \/ DecompressorPut \/ DecompressorShutDown
    \/ DecompressorShutdownIn \/ DecompressorShutdownOut
    \/ DecompressorAbortIn \/ DecompressorAbortOut
    \/ ParserOpen \/ ParserAbort \/ ParserClose

CanProgress ==
    \/ parse_thread.pc = "get" /\ CanGet(content_queue)
    \/ ENABLED Progress

\* The work left: what is still to be read, queued, held and cleaned up.
PcRank(pc) ==
    CASE pc \in {"idle", "get"} -> 10
      [] pc = "put" -> 13
      [] pc = "open" -> 11
      [] pc \in {"shutdown_in", "abort_in", "abort"} -> 2
      [] pc \in {"shutdown_out", "abort_out", "run"} -> 1
      [] pc = "done" -> 0

MainRank ==
    CASE main = "start_download" -> 8
      [] main = "start_decompress" -> 6
      [] main = "start_parse" -> 4
      [] main = "join" -> 2
      [] OTHER -> 0

WorkLeft ==
    5 * Len(response) + 4 * Len(chunk_queue.items) + 2 * Len(content_queue.items)
    + (IF download_thread.pc = "idle" THEN 1 ELSE PcRank(download_thread.pc))
    + PcRank(decompress_thread.pc) + PcRank(parse_thread.pc) + MainRank

\* C11: in every run, whichever stage fails and whenever, the pipeline never
\* stops with a task alive: as long as the orchestrator has not reported,
\* some task can take a step, every step reduces the work left (so the three
\* tasks end), and a task whose partner has ended finds its queue shut down,
\* so that its put or get raises ShutDown instead of blocking.
C11_EveryTaskEnds ==
    /\ [](main # "done" => CanProgress)
    /\ [][WorkLeft' < WorkLeft]_vars
    /\ []((download_thread.pc = "run" /\ decompress_thread.pc = "done")
            => chunk_queue.is_shutdown)
    /\ []((decompress_thread.pc = "get" /\ download_thread.pc = "done")
            => chunk_queue.is_shutdown)
    /\ []((decompress_thread.pc = "put" /\ parse_thread.pc = "done")
            => content_queue.is_shutdown)
    /\ []((parse_thread.pc = "get" /\ decompress_thread.pc = "done")
            => content_queue.is_shutdown)

\* The parser failed while the decompressor waited to put on the full
\* content_queue and the downloader still had bytes to put; all three ended.
C11_Witness ==
    /\ AllThreadsDone
    /\ parse_thread.result = "error"
    /\ decompress_thread.result = "shutdown"
    /\ download_thread.result = "shutdown"
    /\ response # <<>>
    /\ pushed # SubSeq(pushed, 1, delivered.fed)

\* C12: Done is printed only when the downloader, the decompressor and the
\* parser have all ended: whenever Done is on stdout the three threads are
\* at their end, the step that prints it starts from such a state, and a
\* thread that has ended does nothing more.
C12_DoneAfterAllTasksEnded ==
    /\ []("Done" \in stdout => AllThreadsDone)
    /\ [][("Done" \notin stdout /\ "Done" \in stdout') => (AllThreadsDone /\ main = "join")]_vars
    /\ [][/\ download_thread.pc = "done" => download_thread' = download_thread
          /\ decompress_thread.pc = "done" => decompress_thread' = decompress_thread
          /\ parse_thread.pc = "done" => (parse_thread' = parse_thread /\ csvfile' = csvfile)]_vars

\* Done was printed in a run whose downloader ended first, on a transport
\* failure, while chunks were still on their way to the parser.
C12_Witness ==
    /\ "Done" \in stdout
    /\ download_thread.result = "error"
    /\ decompress_thread.result = "shutdown"
    /\ parse_thread.result \in {"returned", "crashed"}
    /\ delivered.fed > 0

\* The ids of the changeset elements of the original document, in the order
\* of their closing boundaries.
DocClosedIds ==
    LET c == feed(NewContext(editor_filter), Flatten(source.members)).closed
    IN  [i \in 1..Len(c) |-> CsvField(c[i])]

DocClosedPos(id) == CHOOSE k \in 1..Len(DocClosedIds) : DocClosedIds[k] = id

\* C13: the data rows stand in the order in which their changeset elements
\* are closed in the original document (every row is the row of an element
\* of the document, and a row written earlier belongs to an element closed
\* earlier), and the pipeline keeps the order of the bytes: each queue holds,
\* first in first out, exactly what was put and not yet got, and what was
\* pushed to the parser is a prefix of the document.
C13_RowsInClosingOrder ==
    /\ \A i \in 1..Len(RowIds) : \E k \in 1..Len(DocClosedIds) : DocClosedIds[k] = RowIds[i]
    /\ \A i, j \in 1..Len(RowIds) :
            i < j => DocClosedPos(RowIds[i]) < DocClosedPos(RowIds[j])
    /\ pushed = SubSeq(Flatten(source.members), 1, Len(pushed))
    /\ ~content_queue.aborted =>
            Flatten(content_queue.items) = SubSeq(pushed, delivered.fed + 1, Len(pushed))
    /\ ~chunk_queue.aborted =>
            Flatten(chunk_queue.items)
                = SubSeq(File(source), delivered.got + 1, Len(File(source)) - Len(response))

\* With the smallest queue size the parser has returned after writing the rows
\* of both changeset elements of the document, in their closing order.
C13_Witness ==
    /\ Len(RowIds) = 2
    /\ RowIds = DocClosedIds
    /\ parse_thread.pc = "done"
    /\ parse_thread.result = "returned"
    /\ queue_size = 1

\* The changeset elements that are open in the parser, outermost first.
OpenChangesets == SelectSeq(xmlparser.stack, LAMBDA e : e.name = "changeset")

\* C14: at every point of every run the csv file holds rows only of changeset
\* elements whose end the parser has been fed: every row's id is the id of
\* an element closed within the bytes fed so far, there are no more rows
\* than closed elements, no row has the id of an element that is still open,
\* and a step adds rows only if it feeds the end of a changeset element.
C14_NoRowBeforeClosingBoundary ==
    /\ [](closed = feed(NewContext(editor_filter), SubSeq(pushed, 1, delivered.fed)).closed)
    /\ [](\A i \in 1..Len(RowIds) : \E k \in 1..Len(ClosedIds) : ClosedIds[k] = RowIds[i])
    /\ [](Len(RowIds) <= Len(closed))
    /\ [](\A i \in 1..Len(RowIds), k \in 1..Len(OpenChangesets) :
            RowIds[i] # CsvField(OpenChangesets[k].id))
    /\ [][(csvfile # <<>> /\ Len(csvfile') > Len(csvfile)) =>
            (Len(closed') > Len(closed) /\ delivered'.fed > delivered.fed)]_vars

\* The run was cut short by a transport failure after the start of the second
\* changeset element was fed: the first element's row is in the file, the
\* second element is open and has no row.
C14_Witness ==
    /\ download_thread.result = "error"
    /\ parse_thread.pc = "done"
    /\ Len(OpenChangesets) = 1
    /\ CsvField(OpenChangesets[1].id) = Attrs2.id
    /\ RowIds = <<Attrs1.id>>
    /\ editor_filter = <<>>

IsPrefix(s, t) == Len(s) <= Len(t) /\ s = SubSeq(t, 1, Len(s))

\* C15: the csv file only grows by appending: every step leaves the rows
\* written so far in place and unaltered, whatever fails; so after a
\* decompression error the file still holds the header and the row of every
\* changeset element that was closed before the failure and passed the filter.
C15_RowsOnlyAppended ==
    /\ [][IsPrefix(csvfile, csvfile')]_vars
    /\ []((decompress_thread.result = "error" /\ parse_thread.pc \notin {"idle", "open"}) =>
            /\ csvfile = RowsOfPrefix(pushed, delivered.fed, editor_filter)
            /\ editor_filter = <<>> => RowIds = ClosedIds)

\* A corrupt member stopped the decompressor after the first changeset
\* element had been written; the parser has ended (parser.close() raised on
\* the incomplete document) and the row is in the file.
C15_Witness ==
    /\ decompress_thread.result = "error"
    /\ parse_thread.pc = "done"
    /\ "Decompression error" \in stdout
    /\ Len(csvfile) = 2
    /\ RowIds = <<Attrs1.id>>

\* The downloader is in q.put on the full chunk_queue.
DownloaderBlocked ==
    /\ download_thread.pc = "run" /\ response # <<>>
    /\ Len(chunk_queue.items) = queue_size /\ ~chunk_queue.is_shutdown

\* The decompressor is in q_out.put on the full content_queue.
DecompressorBlocked ==
    /\ decompress_thread.pc = "put"
    /\ Len(content_queue.items) = queue_size /\ ~content_queue.is_shutdown

\* C16: neither queue ever holds more than queue_size chunks; a producer at
\* a put on a full open queue takes no step of its own, and it is released
\* only by a step that takes a chunk from the queue or shuts the queue down.
C16_QueuesBoundedByDepth ==
    /\ [](Len(chunk_queue.items) <= queue_size /\ Len(content_queue.items) <= queue_size)
    /\ [](DownloaderBlocked =>
            ~ENABLED (DownloaderPut \/ DownloaderShutDown \/ DownloaderEnd))
    /\ [](DecompressorBlocked =>
            ~ENABLED (DecompressorGet \/ DecompressorPut \/ DecompressorShutDown))
    /\ [][(DownloaderBlocked /\ ~DownloaderBlocked') =>
            \/ Len(chunk_queue'.items) < Len(chunk_queue.items)
            \/ chunk_queue'.is_shutdown]_vars
    /\ [][(DecompressorBlocked /\ ~DecompressorBlocked') =>
            \/ Len(content_queue'.items) < Len(content_queue.items)
            \/ content_queue'.is_shutdown]_vars

\* Both queues are full at the larger queue size while the parser has not
\* taken anything yet: the decompressor waits for the parser and the
\* downloader waits for the decompressor.
C16_Witness ==
    /\ queue_size = MaxDepth
    /\ DownloaderBlocked
    /\ DecompressorBlocked
    /\ parse_thread.pc \in {"idle", "open", "get"}
    /\ delivered.fed = 0

\* The column header as the contract gives it.
HeaderLine ==
    << <<"id">>, <<"created_at">>, <<"closed_at">>, <<"num_changes">>, <<"uid">>,
       <<"min_lat">>, <<"max_lat">>, <<"min_lon">>, <<"max_lon">>,
       <<"comment">>, <<"created_by">>, <<"locale">> >>

\* The record of the changeset element with the given id in the documents of
\* Inputs: the first element carries no tag, the second a created_by tag.
DocRecord(id) ==
    IF id = Attrs1.id THEN startChangeset(Attrs1)
    ELSE [startChangeset(Attrs2) EXCEPT !.created_by = Str(OpenStopEditor)]

\* C17: in every run, failing ones included, the file is opened once; from
\* then on its first line is the column header, no later line is a header,
\* and every data row holds in column k the field that the header names in
\* column k (so toRow of a record whose fields hold their own names is the
\* header row).
C17_HeaderFirstAndOnce ==
    /\ [](csvfile = <<>> <=> parse_thread.pc \in {"idle", "open"})
    /\ [](csvfile # <<>> =>
            /\ csvfile[1] = HeaderLine
            /\ \A i \in 2..Len(csvfile) :
                    /\ csvfile[i] # HeaderLine
                    /\ Len(csvfile[i]) = Len(HeaderLine)
                    /\ \A k \in 1..Len(HeaderLine) :
                            csvfile[i][k] = CsvField(DocRecord(csvfile[i][1])[HeaderLine[k][1]]))
    /\ [](toRow([f \in DOMAIN Changeset |-> Str(<<f>>)]) = headerRow)
    /\ [][parse_thread'.pc = "open" => parse_thread.pc \in {"idle", "open"}]_vars
    /\ [][csvfile # <<>> => (csvfile' # <<>> /\ csvfile'[1] = csvfile[1])]_vars

\* A run that failed on a parse error after one row: the file is the header
\* and that row.
C17_Witness ==
    /\ main = "done"
    /\ parse_thread.result = "error"
    /\ Len(csvfile) = 2
    /\ csvfile[1] = HeaderLine
    /\ csvfile[2][1] = Attrs1.id

NoErrorReported == stdout \cap Errors = {}

\* A step closes q gracefully: it is open before, shut down and not aborted after.
ClosesGracefully(q, qAfter) == ~q.is_shutdown /\ qAfter.is_shutdown /\ ~qAfter.aborted

\* C18: in a run without a failure nothing is lost at the graceful closures:
\* a decompressor that has ended has got every byte of the file, a parser
\* that has ended has been fed every byte pushed, which is the whole
\* document, and both queues are empty; and the step that closes
\* content_queue gracefully finds chunk_queue shut down and empty and the
\* decompressor holding no content.
C18_GracefulClosureLosesNothing ==
    /\ []((NoErrorReported /\ decompress_thread.pc = "done") =>
            /\ response = <<>>
            /\ chunk_queue.items = <<>>
            /\ delivered.got = Len(File(source))
            /\ pushed = Flatten(source.members))
    /\ []((NoErrorReported /\ parse_thread.pc = "done") =>
            /\ decompress_thread.pc = "done"
            /\ content_queue.items = <<>>
            /\ delivered.fed = Len(pushed))
    /\ [][(NoErrorReported /\ ClosesGracefully(content_queue, content_queue')) =>
            /\ chunk_queue.is_shutdown /\ chunk_queue.items = <<>>
            /\ download_thread.pc = "done"
            /\ decompress_thread.content = <<>>]_vars

\* A run without a failure has ended with the smallest queue size on a file
\* of several members: every byte was got and every content fed.
C18_Witness ==
    /\ NoErrorReported
    /\ AllThreadsDone
    /\ queue_size = 1
    /\ Len(source.members) > 1
    /\ delivered.got = Len(File(source))
    /\ delivered.fed = Len(Flatten(source.members))
    /\ ~chunk_queue.aborted /\ ~content_queue.aborted

\* C19 as stated: the parser ends in the success state only if content_queue
\* was closed gracefully and everything pushed for it was fed; after an
\* abort-closure it does not end that way.
C19_SuccessOnlyAfterGracefulClose ==
    parse_thread.result = "returned" =>
        /\ ~content_queue.aborted
        /\ delivered.fed = Len(pushed)

\* C20 as stated: when no changeset element is open the handler holds no
\* record, and while one is open the record held is the one allocated at
\* the start of the innermost open changeset element, so that each end
\* emits the record of its own start.
C20_RecordDiscardedAtEnd ==
    main \in {"parse", "crashed", "exit"} =>
        /\ OpenChangesets = <<>> => current_changeset = None
        /\ OpenChangesets # <<>> =>
                /\ current_changeset # None
                /\ current_changeset.id = OpenChangesets[Len(OpenChangesets)].id

TagKeys == {"comment", "created_by", "locale"}

\* The step parses token b of TokenTable.
ParsesToken(b) ==
    LET c == feed(Context, <<LT, b>>) IN
    /\ main = "parse"
    /\ delivered'.fed = delivered.fed + 2
    /\ xmlparser' = c.xp /\ current_changeset' = c.cc
    /\ csvfile' = c.rows /\ closed' = c.closed

\* C21: while a changeset element is open, a step that parses a tag element
\* with the key comment, created_by or locale changes the field of that name
\* and no other field of the record, to attrs.get('v'); a step that parses a
\* tag with another key, an element with another name or an end tag leaves
\* the whole record as it is.
C21_TagChangesOnlyItsField ==
    [][\A b \in 1..Len(TokenTable) :
        LET tok == TokenTable[b] IN
        (/\ ParsesToken(b)
         /\ OpenChangesets # <<>>
         /\ ~(tok.name = "changeset" /\ tok.kind # "end")) =>
            IF tok.name = "tag" /\ tok.kind # "end" /\ tok.attrs.k[1] \in TagKeys
            THEN /\ current_changeset'[tok.attrs.k[1]] = get(tok.attrs, "v")
                 /\ \A f \in DOMAIN Changeset \ {tok.attrs.k[1]} :
                        current_changeset'[f] = current_changeset[f]
            ELSE current_changeset' = current_changeset]_vars

\* A record is open that got its comment and its created_by from tags, with
\* the locale still at its default and the attributes of its element in place.
C21_Witness ==
    /\ main = "parse"
    /\ OpenChangesets # <<>>
    /\ current_changeset # None
    /\ current_changeset.comment = Str(<<"c">>)
    /\ current_changeset.created_by = Str(OpenStopEditor)
    /\ current_changeset.locale = Str(<<>>)
    /\ current_changeset.id = Str(Attrs2.id)

\* What decompressing the first n bytes of the file in one piece gives.
DecodedPrefix(n) == decompressChunk(BZ2Decompressor, SubSeq(File(source), 1, n)).content

\* C22: the decompressor answers every chunk it gets with one put, of the
\* content of that chunk, before its next get; the contents put so far,
\* together with the one in its hands, are what the chunks got so far decode
\* to, no less (nothing is held back) and no more (nothing of a chunk not
\* yet got), the empty content included.
C22_OneOutputPerInput ==
    /\ [](decompress_thread.pc \in {"get", "put"} =>
            pushed \o decompress_thread.content = DecodedPrefix(delivered.got))
    /\ [](decompress_thread.pc = "get" => decompress_thread.content = <<>>)
    /\ [][delivered'.got > delivered.got =>
            /\ decompress_thread.pc = "get"
            /\ decompress_thread'.pc \in {"put", "abort_in"}
            /\ chunk_queue'.items = Tail(chunk_queue.items)
            /\ decompress_thread'.pc = "put" =>
                    /\ decompress_thread'.chunk = Head(chunk_queue.items)
                    /\ decompress_thread'.content =
                         decompressChunk(decompress_thread.decompressor,
                                         Head(chunk_queue.items)).content]_vars
    /\ [][(decompress_thread.pc = "put" /\ decompress_thread'.pc = "get") =>
            content_queue'.items = Append(content_queue.items, decompress_thread.content)]_vars
    /\ [][Len(content_queue'.items) > Len(content_queue.items) =>
            (decompress_thread.pc = "put" /\ decompress_thread'.pc = "get")]_vars

\* The decompressor holds the content of a chunk that ended one member and
\* began the next, after it had put an empty content for a chunk that held
\* no data byte.
C22_Witness ==
    /\ decompress_thread.pc = "put"
    /\ CountEOS(decompress_thread.chunk) >= 1
    /\ decompress_thread.content # <<>>
    /\ \E i \in 1..Len(content_queue.items) : content_queue.items[i] = <<>>
    /\ pushed # <<>>

\* The values of remaining_data (line 108) in the turns of the while loop
\* that starts with the decompressor d.
RECURSIVE Leftovers(_)
Leftovers(d) ==
    IF ~d.eof THEN <<>>
    ELSE LET r == decompress(BZ2Decompressor, d.unused_data, <<>>) IN
         <<d.unused_data>> \o (IF r.raised THEN <<>> ELSE Leftovers(r.d))

\* C23: for every chunk of a file of valid members the while loop of lines
\* 107-110 ends: it takes one turn for each end of a member in the chunk,
\* every turn's remaining data is shorter than the chunk and shorter than
\* the turn's before, and the decompressor left for the next chunk is not at
\* eof and has no unused data, also when the end of the member is the last
\* byte of the chunk and nothing remains.
C23_RestartLoopTerminates ==
    /\ [](~decompress_thread.decompressor.eof
            /\ decompress_thread.decompressor.unused_data = <<>>)
    /\ [][delivered'.got > delivered.got =>
            LET chunk == decompress_thread'.chunk
                first == decompress(decompress_thread.decompressor, chunk, <<>>)
                ls == Leftovers(first.d)
            IN  /\ ~first.raised
                /\ Len(ls) = CountEOS(chunk)
                /\ \A i \in 1..Len(ls) : Len(ls[i]) < Len(chunk)
                /\ \A i \in 1..(Len(ls) - 1) : Len(ls[i + 1]) < Len(ls[i])
                /\ (chunk[Len(chunk)] = EOS) => ls[Len(ls)] = <<>>
                /\ decompress_thread'.result # "error"]_vars

\* A chunk has ended on the end of a member after another end of a member
\* inside it, with more of the file to come: the loop took two turns, the
\* last one on no bytes, and left a fresh decompressor.
C23_Witness ==
    /\ response # <<>>
    /\ CountEOS(decompress_thread.chunk) = 2
    /\ decompress_thread.chunk[Len(decompress_thread.chunk)] = EOS
    /\ decompress_thread.decompressor = BZ2Decompressor
    /\ decompress_thread.result = ""

\* The csv file of the run in which nothing fails: the whole document of the
\* source is fed (up to the parse error of a malformed document).
FailureFreeFile == feed(NewContext(editor_filter), Flatten(source.members)).rows

\* C24: at every point of every run, whichever stage has failed, the csv
\* file is a prefix of the file that the run without a failure writes for
\* the same source and filter: the header, then its first rows in its order.
C24_RowsArePrefixOfFullRun ==
    csvfile # <<>> => IsPrefix(csvfile, FailureFreeFile)

\* A run has ended after a transport failure with the first of the two rows
\* that the run without a failure writes.
C24_Witness ==
    /\ AllThreadsDone
    /\ download_thread.result = "error"
    /\ Len(FailureFreeFile) = 3
    /\ Len(csvfile) = 2
    /\ delivered.fed < Len(Flatten(source.members))

\* C25 as stated: when a changeset element of a well-formed document ends,
\* the record's created_by is a text and applying the filter to it does not
\* raise, also after a created_by tag without a v attribute.
C25_FilterNeverFails ==
    [][Len(closed') > Len(closed) =>
        /\ current_changeset'.created_by.t = "str"
        /\ main' # "crashed"]_vars
====
